---- MODULE Spec2Model ----
(***************************************************************************)
(* A model of edit_map.py: the RoborockMap class (load, pixel and          *)
(* rectangle edits, checksum, save, PNG export) and main().                *)
(*                                                                         *)
(* A 32-bit array('I') item is kept as its two 16-bit halves, [hi, lo],    *)
(* so that values such as 0xc22b2776 stay exact.  Files are sequences of   *)
(* bytes; array.fromfile / array.tofile convert between items and bytes    *)
(* in the machine's byte order, taken to be little-endian here.            *)
(***************************************************************************)
EXTENDS Integers, Sequences, FiniteSets, TLC

\* Largest width and height of the maps the model loads.
MaxDim == 3

\* Longest command line (number of -u/-f/-w options) main() is run with.
MaxOpts == 3

-----------------------------------------------------------------------------
(* 32-bit items and their bytes *)

Word(h, l) == [hi |-> h, lo |-> l]

\* edit_map.py:82  assert array('I').itemsize == 4
itemsize == 4

\* edit_map.py:84-86
RR_FLOOR == Word(49707, 10102)
RR_WALL == Word(16937, 30118)
RR_UNEXPLORED == Word(0, 0)

\* The integer an item stands for (used for width and height, which are small).
IntOf(w) == w.hi * 65536 + w.lo

\* Byte j (0 the least significant) of an item.
ByteOfWord(w, j) ==
    CASE j = 0 -> w.lo % 256
      [] j = 1 -> w.lo \div 256
      [] j = 2 -> w.hi % 256
      [] OTHER -> w.hi \div 256

\* The item whose itemsize bytes start at b[p], least significant first.
WordOfBytes(b, p) == Word(b[p + 3] * 256 + b[p + 2], b[p + 1] * 256 + b[p])

\* array.tofile / array.tobytes: the items' bytes, in order.
tofile(arr) ==
    [k \in 1..(itemsize * Len(arr)) |->
        ByteOfWord(arr[((k - 1) \div itemsize) + 1], (k - 1) % itemsize)]

\* array.frombytes: Len(b) is a multiple of itemsize.
frombytes(b) ==
    [k \in 1..(Len(b) \div itemsize) |-> WordOfBytes(b, itemsize * (k - 1) + 1)]

\* n items from the bytes of data that follow offset pos.
items_at(data, pos, n) ==
    [k \in 1..n |-> WordOfBytes(data, pos + itemsize * (k - 1) + 1)]

\* array.fromfile(f, n) with f at byte offset pos: n items, or EOFError when
\* fewer than n items are left.
fromfile(data, pos, n) ==
    IF Len(data) - pos < itemsize * n
    THEN [ok |-> FALSE, items |-> <<>>, pos |-> Len(data)]
    ELSE [ok |-> TRUE,
          items |-> items_at(data, pos, n),
          pos |-> pos + itemsize * n]

-----------------------------------------------------------------------------
(* The checksum *)

\* hashlib.md5(bytes).digest(): 16 bytes, a deterministic function of the
\* bytes.  MD5 itself is a library function; it is abstracted by a small
\* position-sensitive hash (mix, over the bytes lo..hi) spread over 16 bytes.
RECURSIVE mix(_, _, _)
mix(b, lo, hi) ==
    IF lo > hi THEN 7
    ELSE IF lo = hi THEN (b[lo] + 1) * 251 % 65521
    ELSE CHOOSE h \in { (l * 31 + r * 17 + 1) % 65521 :
                        l \in {mix(b, lo, (lo + hi) \div 2)},
                        r \in {mix(b, (lo + hi) \div 2 + 1, hi)} } : TRUE

spread(h) ==
    [k \in 1..16 |-> ((h + k) * (2 * k + 1) + (h \div 256) * k) % 256]

md5(b) == CHOOSE d \in {spread(h) : h \in {mix(b, 1, Len(b))}} : TRUE

\* RoborockMap.calc_map_checksum
calc_map_checksum(m) == frombytes(md5(tofile(m)))

-----------------------------------------------------------------------------
(* Pixel access *)

\* array.__getitem__ / __setitem__ index rule: a negative index counts from
\* the end; an index outside the array raises IndexError (-1 here).
PyIndex(k, n) ==
    IF k >= 0
    THEN (IF k < n THEN k ELSE -1)
    ELSE (IF k + n >= 0 THEN k + n ELSE -1)

\* RoborockMap.get_pixel
get_pixel(m, w, x, y) ==
    LET k == PyIndex(y * w + x, Len(m))
    IN  IF k < 0
        THEN [result |-> "IndexError", ret |-> RR_UNEXPLORED]
        ELSE [result |-> "ok", ret |-> m[k + 1]]

\* RoborockMap.set_pixel
set_pixel(m, w, x, y, value) ==
    LET k == PyIndex(y * w + x, Len(m))
    IN  IF k < 0
        THEN [result |-> "IndexError", map |-> m]
        ELSE [result |-> "ok", map |-> [m EXCEPT ![k + 1] = value]]

\* range(a, b) as a sequence.
range(a, b) == [k \in 1..(IF b > a THEN b - a ELSE 0) |-> a + k - 1]

\* A loop body of set_pixel calls over the points pts, in order; the first
\* IndexError ends the loop and leaves the cells already written.
RECURSIVE set_pixels(_, _, _, _, _)
set_pixels(m, w, pts, k, value) ==
    IF k > Len(pts)
    THEN [result |-> "ok", map |-> m]
    ELSE LET r == set_pixel(m, w, pts[k][1], pts[k][2], value)
         IN  IF r.result = "ok"
             THEN set_pixels(r.map, w, pts, k + 1, value)
             ELSE r

\* for x in xs: for y in ys: (x, y)
XMajor(xs, ys) ==
    [k \in 1..(Len(xs) * Len(ys)) |->
        <<xs[((k - 1) \div Len(ys)) + 1], ys[((k - 1) % Len(ys)) + 1]>>]

\* for y in ys: for x in xs: (x, y)
YMajor(ys, xs) ==
    [k \in 1..(Len(ys) * Len(xs)) |->
        <<xs[((k - 1) % Len(xs)) + 1], ys[((k - 1) \div Len(xs)) + 1]>>]

\* set_rect with range(x1, x2) and range(y1, y2): the far corner left out.
set_rect_exclusive(m, w, rect, value) ==
    set_pixels(m, w,
               XMajor(range(rect[1], rect[3]), range(rect[2], rect[4])),
               1, value)

\* RoborockMap.set_rect
set_rect(m, w, rect, value) ==
    set_pixels(m, w,
               XMajor(range(rect[1], rect[3] + 1), range(rect[2], rect[4] + 1)),
               1, value)

\* set_rect_border without its second loop: the two rows only.
set_rect_border_rows_only(m, w, rect, value) ==
    set_pixels(m, w,
               XMajor(range(rect[1], rect[3] + 1), <<rect[2], rect[4]>>),
               1, value)

\* set_rect_border returning at once when a bound is reversed.
set_rect_border_guarded(m, w, rect, value) ==
    IF rect[1] > rect[3] \/ rect[2] > rect[4]
    THEN [result |-> "ok", map |-> m]
    ELSE set_pixels(m, w,
                    XMajor(range(rect[1], rect[3] + 1), <<rect[2], rect[4]>>)
                      \o YMajor(range(rect[2], rect[4] + 1), <<rect[1], rect[3]>>),
                    1, value)

\* RoborockMap.set_rect_border
set_rect_border(m, w, rect, value) ==
    set_pixels(m, w,
               XMajor(range(rect[1], rect[3] + 1), <<rect[2], rect[4]>>)
                 \o YMajor(range(rect[2], rect[4] + 1), <<rect[1], rect[3]>>),
               1, value)

\* classify_pixel comparing with > 0x80000000 in place of testing the bit.
classify_pixel_above(value) ==
    IF value.hi > 32768 \/ (value.hi = 32768 /\ value.lo > 0) THEN 1
    ELSE IF value.hi # 0 \/ value.lo # 0 THEN 2
    ELSE 0

\* RoborockMap.classify_pixel: 0 unexplored, 1 floor, 2 wall.
classify_pixel(value) ==
    IF value.hi >= 32768 THEN 1
    ELSE IF value.hi # 0 \/ value.lo # 0 THEN 2
    ELSE 0

-----------------------------------------------------------------------------
(* Load, save, export *)

Warning == "Warning: incorrect checksum found"

\* The constructor's outcome when a fromfile raises EOFError.
Failed ==
    [result |-> "EOFError", header |-> <<>>, map |-> <<>>, width |-> 0,
     height |-> 0, checksum |-> <<>>, stdout |-> <<>>]

\* A constructor that replaces a stored checksum that does not match.
Constructed_repairing(h, m, c) ==
    [result |-> "ok", header |-> h, map |-> m, width |-> IntOf(h[9]),
     height |-> IntOf(h[10]), checksum |-> calc_map_checksum(m),
     stdout |-> IF calc_map_checksum(m) # c THEN <<Warning>> ELSE <<>>]

\* The constructor's outcome once the three sections are read: the fields,
\* and the warning printed when the stored checksum is not the digest.
Constructed(h, m, c) ==
    [result |-> "ok", header |-> h, map |-> m, width |-> IntOf(h[9]),
     height |-> IntOf(h[10]), checksum |-> c,
     stdout |-> IF calc_map_checksum(m) # c THEN <<Warning>> ELSE <<>>]

\* self.checksum.fromfile(f, 4)
read_checksum(data, h, m) ==
    CHOOSE r \in { IF c.ok THEN Constructed(h.items, m.items, c.items)
                   ELSE Failed :
                   c \in {fromfile(data, m.pos, 4)} } : TRUE

\* self._map.fromfile(f, self.width*self.height)
read_map(data, h) ==
    CHOOSE r \in { IF m.ok THEN read_checksum(data, h, m) ELSE Failed :
                   m \in {fromfile(data, h.pos,
                                   IntOf(h.items[9]) * IntOf(h.items[10]))} } :
        TRUE

\* RoborockMap.__init__ on a file holding the bytes data.
__init__(data) ==
    CHOOSE r \in { IF h.ok THEN read_map(data, h) ELSE Failed :
                   h \in {fromfile(data, 0, 10)} } : TRUE

\* RoborockMap.update_checksum
update_checksum(m) == calc_map_checksum(m)

\* to_file without update_checksum: the checksum held is written as it is.
to_file_trusting(hdr, m, old) ==
    [checksum |-> old, written |-> tofile(hdr) \o tofile(m) \o tofile(old)]

\* to_file with the checksum written before the pixels.
to_file_checksum_first(hdr, m, old) ==
    CHOOSE r \in { [checksum |-> c,
                    written |-> tofile(hdr) \o tofile(c) \o tofile(m)] :
                   c \in {update_checksum(m)} } : TRUE

\* RoborockMap.to_file on an object with header hdr, pixels m and checksum
\* old: the new checksum and the bytes written.
to_file(hdr, m, old) ==
    CHOOSE r \in { [checksum |-> c,
                    written |-> tofile(hdr) \o tofile(m) \o tofile(c)] :
                   c \in {update_checksum(m)} } : TRUE

\* RoborockMap.to_png: a width x height palette image, one index per pixel.
to_png(m, w, ht) ==
    [written |-> TRUE, width |-> w, height |-> ht,
     pixels |-> [k \in 1..Len(m) |-> classify_pixel(m[k])]]

-----------------------------------------------------------------------------
(* The files the model loads *)

\* The eight constant header words of the documented layout.
DocHeader ==
    << Word(33768, 10562), Word(33768, 55486), Word(53126, 44349),
       Word(42613, 43329), Word(42613, 10562), Word(0, 41025),
       Word(28415, 65535), Word(20479, 65535) >>

\* Pixel values found in maps: unexplored, floor and wall values.
Palette ==
    << RR_UNEXPLORED, RR_FLOOR, RR_WALL, Word(0, 1), Word(32768, 0) >>

Grid(w, ht, pattern) ==
    [k \in 1..(w * ht) |->
        IF pattern = "zero" THEN RR_UNEXPLORED
        ELSE Palette[((k * k + k \div 2) % Len(Palette)) + 1]]

\* A well-formed file; with badsum its stored checksum is not the digest.
MapFile(w, ht, pattern, badsum) ==
    LET g == Grid(w, ht, pattern)
        d == md5(tofile(g))
    IN  tofile(DocHeader \o <<Word(0, w), Word(0, ht)>>)
          \o tofile(g)
          \o (IF badsum THEN [d EXCEPT ![1] = (d[1] + 1) % 256] ELSE d)

\* Every size up to MaxDim x MaxDim, once with a correct and once with a
\* wrong checksum; and one blank 5 x 5 map.
Files ==
    { MapFile(w, ht, "mixed", b) :
        w \in 1..MaxDim, ht \in 1..MaxDim, b \in BOOLEAN }
    \cup { MapFile(5, 5, "zero", FALSE) }

\* A file cut short inside its pixel data.
Truncated == SubSeq(MapFile(2, 2, "mixed", FALSE), 1, 50)

-----------------------------------------------------------------------------
(* State *)

VARIABLES
    file,       \* bytes of the input map file
    out,        \* bytes of the file written by to_file (<<>>: not written)
    png,        \* the image written by to_png
    loaded,     \* a RoborockMap object has been constructed
    header,     \* self.header
    _map,       \* self._map
    width,      \* self.width
    height,     \* self.height
    checksum,   \* self.checksum
    stdout,     \* lines printed
    lastOp,     \* the last call: its name, arguments and outcome
    called,     \* an edit or pixel call has been made on the object
    argv,       \* main(): the command line
    args,       \* main(): the parsed arguments
    pc,         \* main(): position in main
    idx         \* main(): position in the list being iterated

vars == <<file, out, png, loaded, header, _map, width, height, checksum,
          stdout, lastOp, called, argv, args, pc, idx>>

objVars == <<loaded, header, _map, width, height, checksum>>
mainVars == <<argv, args, pc, idx>>

NoPng == [written |-> FALSE, width |-> 0, height |-> 0, pixels |-> <<>>]

Op(name, path, rect, value, result, ret) ==
    [op |-> name, path |-> path, rect |-> rect, value |-> value,
     result |-> result, ret |-> ret]

NoOp == Op("none", "", <<>>, RR_UNEXPLORED, "", RR_UNEXPLORED)

NoArgs == [set_unexplored |-> <<>>, set_floor |-> <<>>, set_wall |-> <<>>,
           png |-> FALSE, output |-> FALSE]

\* Before RoborockMap(path): the class attributes are None.
NoObject ==
    /\ loaded = FALSE
    /\ header = <<>>
    /\ _map = <<>>
    /\ width = 0
    /\ height = 0
    /\ checksum = <<>>

-----------------------------------------------------------------------------
(* The class driven call by call, in main()'s order: construct, then at     *)
(* most one pixel or rectangle call, then export, save and reload.          *)

\* Values passed to the edits.
Values == {RR_UNEXPLORED, RR_FLOOR, RR_WALL}

\* Coordinates passed to the calls: the grid and one cell beyond each side.
XCoords == (-1)..width
YCoords == (-1)..height

Init ==
    /\ file \in Files \cup {Truncated}
    /\ out = <<>>
    /\ png = NoPng
    /\ NoObject
    /\ stdout = <<>>
    /\ lastOp = NoOp
    /\ called = FALSE
    /\ argv = <<>>
    /\ args = NoArgs
    /\ pc = "api"
    /\ idx = 0

\* rr_map = RoborockMap(path), path being the input map or the saved file.
Construct(path) ==
    /\ pc = "api"
    /\ path = "map" => ~loaded
    /\ path = "output" => out # <<>>
    /\ \E r \in {__init__(IF path = "map" THEN file ELSE out)} :
           /\ lastOp' = Op("__init__", path, <<>>, RR_UNEXPLORED, r.result,
                           RR_UNEXPLORED)
           /\ IF r.result = "ok"
              THEN /\ loaded' = TRUE
                   /\ header' = r.header
                   /\ _map' = r.map
                   /\ width' = r.width
                   /\ height' = r.height
                   /\ checksum' = r.checksum
                   /\ stdout' = stdout \o r.stdout
              ELSE UNCHANGED <<objVars, stdout>>
    /\ UNCHANGED <<file, out, png, called, mainVars>>

CanCall ==
    /\ pc = "api"
    /\ loaded
    /\ ~called
    /\ out = <<>>
    /\ ~png.written

GetPixel(x, y) ==
    /\ CanCall
    /\ \E r \in {get_pixel(_map, width, x, y)} :
           lastOp' = Op("get_pixel", "", <<x, y>>, RR_UNEXPLORED, r.result,
                        r.ret)
    /\ called' = TRUE
    /\ UNCHANGED <<file, out, png, objVars, stdout, mainVars>>

SetPixel(x, y, value) ==
    /\ CanCall
    /\ \E r \in {set_pixel(_map, width, x, y, value)} :
           /\ _map' = r.map
           /\ lastOp' = Op("set_pixel", "", <<x, y>>, value, r.result,
                           RR_UNEXPLORED)
    /\ called' = TRUE
    /\ UNCHANGED <<file, out, png, loaded, header, width, height, checksum,
                   stdout, mainVars>>

SetRect(rect, value) ==
    /\ CanCall
    /\ \E r \in {set_rect(_map, width, rect, value)} :
           /\ _map' = r.map
           /\ lastOp' = Op("set_rect", "", rect, value, r.result,
                           RR_UNEXPLORED)
    /\ called' = TRUE
    /\ UNCHANGED <<file, out, png, loaded, header, width, height, checksum,
                   stdout, mainVars>>

SetRectBorder(rect, value) ==
    /\ CanCall
    /\ \E r \in {set_rect_border(_map, width, rect, value)} :
           /\ _map' = r.map
           /\ lastOp' = Op("set_rect_border", "", rect, value, r.result,
                           RR_UNEXPLORED)
    /\ called' = TRUE
    /\ UNCHANGED <<file, out, png, loaded, header, width, height, checksum,
                   stdout, mainVars>>

ToPng ==
    /\ pc = "api"
    /\ loaded
    /\ png' = to_png(_map, width, height)
    /\ lastOp' = Op("to_png", "", <<>>, RR_UNEXPLORED, "ok", RR_UNEXPLORED)
    /\ UNCHANGED <<file, out, objVars, stdout, called, mainVars>>

ToFile ==
    /\ pc = "api"
    /\ loaded
    /\ \E r \in {to_file(header, _map, checksum)} :
           /\ checksum' = r.checksum
           /\ out' = r.written
    /\ lastOp' = Op("to_file", "", <<>>, RR_UNEXPLORED, "ok", RR_UNEXPLORED)
    /\ UNCHANGED <<file, png, loaded, header, _map, width, height, stdout,
                   called, mainVars>>

Next ==
    \/ \E path \in {"map", "output"} : Construct(path)
    \/ CanCall /\ \E x \in XCoords, y \in YCoords : GetPixel(x, y)
    \/ CanCall /\ \E x \in XCoords, y \in YCoords, v \in Values :
                      SetPixel(x, y, v)
    \/ CanCall /\ \E x1 \in XCoords, y1 \in YCoords, x2 \in XCoords,
                      y2 \in YCoords, v \in Values :
                      SetRect(<<x1, y1, x2, y2>>, v)
    \/ CanCall /\ \E x1 \in XCoords, y1 \in YCoords, x2 \in XCoords,
                      y2 \in YCoords, v \in Values :
                      SetRectBorder(<<x1, y1, x2, y2>>, v)
    \/ ToPng
    \/ ToFile

Spec == Init /\ [][Next]_vars

-----------------------------------------------------------------------------
(* main(): parse the command line, load, run the three edit loops, export, *)
(* save.  Each loop iteration is one step; an uncaught exception ends the   *)
(* run (pc = "crashed").  --verbose only prints and is left out.            *)

\* The rectangles given on the command line, as the integers that
\* tuple(map(int, rect.split(','))) yields: two overlapping rectangles inside
\* a MaxDim x MaxDim map, one reaching below every map, one with 3 fields.
CliRects == { <<0, 0, 1, 1>>, <<1, 1, 2, 2>>, <<1, 0, 1, 9>>, <<0, 0, 1>> }

CliOptions == { [kind |-> k, rect |-> r] : k \in {"-u", "-f", "-w"}, r \in CliRects }

RECURSIVE OptionLists(_)
OptionLists(n) ==
    IF n = 0 THEN { <<>> }
    ELSE LET shorter == OptionLists(n - 1)
         IN  shorter \cup { Append(l, o) : l \in { s \in shorter : Len(s) = n - 1 },
                                           o \in CliOptions }

\* The map main() is run on.
CliFiles == { MapFile(MaxDim, MaxDim, "mixed", FALSE) }

\* The values of one repeatable option, in command-line order (action="append").
Collected(opts, kind) ==
    LET IsKind(o) == o.kind = kind
        sel == SelectSeq(opts, IsKind)
    IN  [k \in 1..Len(sel) |-> sel[k].rect]

\* parser.parse_args()
parse_args(av) ==
    [set_unexplored |-> Collected(av.opts, "-u"),
     set_floor |-> Collected(av.opts, "-f"),
     set_wall |-> Collected(av.opts, "-w"),
     png |-> av.png,
     output |-> av.output]

\* main() with the floor loop written before the unexplored loop.
NextStatement_FloorFirst(p) ==
    CASE p = "start" -> "floor"
      [] p = "floor" -> "unexplored"
      [] p = "unexplored" -> "wall"
      [] p = "wall" -> "png"
      [] p = "png" -> "output"
      [] OTHER -> "done"

\* The statements of main() in program order, each followed by the next.
NextStatement(p) ==
    CASE p = "start" -> "unexplored"
      [] p = "unexplored" -> "floor"
      [] p = "floor" -> "wall"
      [] p = "wall" -> "png"
      [] p = "png" -> "output"
      [] OTHER -> "done"

Loops == {"unexplored", "floor", "wall"}

ListOf(a, p) ==
    CASE p = "unexplored" -> a.set_unexplored
      [] p = "floor" -> a.set_floor
      [] OTHER -> a.set_wall

\* Where control is once the loops that have nothing left to iterate are left.
RECURSIVE Settle(_, _, _)
Settle(a, p, k) ==
    IF p \in Loops /\ k > Len(ListOf(a, p))
    THEN Settle(a, NextStatement(p), 1)
    ELSE [pc |-> p, idx |-> k]

InitMain ==
    /\ file \in CliFiles
    /\ out = <<>>
    /\ png = NoPng
    /\ NoObject
    /\ stdout = <<>>
    /\ lastOp = NoOp
    /\ called = FALSE
    /\ argv \in { [opts |-> l, png |-> p, output |-> o] :
                    l \in OptionLists(MaxOpts), p \in BOOLEAN, o \in BOOLEAN }
    /\ args = NoArgs
    /\ pc = "start"
    /\ idx = 0

\* args = parser.parse_args(); rr_map = RoborockMap(args.map, args.verbose)
main_load ==
    /\ pc = "start"
    /\ \E a \in {parse_args(argv)}, r \in {__init__(file)} :
           /\ args' = a
           /\ lastOp' = Op("__init__", "map", <<>>, RR_UNEXPLORED, r.result,
                           RR_UNEXPLORED)
           /\ IF r.result = "ok"
              THEN /\ loaded' = TRUE
                   /\ header' = r.header
                   /\ _map' = r.map
                   /\ width' = r.width
                   /\ height' = r.height
                   /\ checksum' = r.checksum
                   /\ stdout' = stdout \o r.stdout
                   /\ \E to \in {Settle(a, NextStatement(pc), 1)} :
                          pc' = to.pc /\ idx' = to.idx
              ELSE /\ pc' = "crashed"
                   /\ UNCHANGED <<objVars, stdout, idx>>
    /\ UNCHANGED <<file, out, png, called, argv>>

\* One iteration of one of the three loops: parse, assert, edit.
main_edit(loop, name, value) ==
    /\ pc = loop
    /\ LET parsed == ListOf(args, loop)[idx]
       IN  IF Len(parsed) # 4
           THEN /\ lastOp' = Op("assert", "", parsed, value, "AssertionError",
                                RR_UNEXPLORED)
                /\ pc' = "crashed"
                /\ UNCHANGED <<_map, idx>>
           ELSE \E r \in { IF name = "set_rect"
                           THEN set_rect(_map, width, parsed, value)
                           ELSE set_rect_border(_map, width, parsed, value) } :
                    /\ _map' = r.map
                    /\ lastOp' = Op(name, "", parsed, value, r.result,
                                    RR_UNEXPLORED)
                    /\ IF r.result = "ok"
                       THEN \E to \in {Settle(args, pc, idx + 1)} :
                                pc' = to.pc /\ idx' = to.idx
                       ELSE pc' = "crashed" /\ UNCHANGED idx
    /\ called' = TRUE
    /\ UNCHANGED <<file, out, png, loaded, header, width, height, checksum,
                   stdout, argv, args>>

\* for rect in args.set_unexplored: rr_map.set_rect(parsed, RR_UNEXPLORED)
main_set_unexplored == main_edit("unexplored", "set_rect", RR_UNEXPLORED)

\* for rect in args.set_floor: rr_map.set_rect(parsed, RR_FLOOR)
main_set_floor == main_edit("floor", "set_rect", RR_FLOOR)

\* for rect in args.set_wall: rr_map.set_rect_border(parsed, RR_WALL)
main_set_wall == main_edit("wall", "set_rect_border", RR_WALL)

\* if args.png: rr_map.to_png(f_png)
main_png ==
    /\ pc = "png"
    /\ IF args.png
       THEN /\ png' = to_png(_map, width, height)
            /\ lastOp' = Op("to_png", "", <<>>, RR_UNEXPLORED, "ok",
                            RR_UNEXPLORED)
       ELSE UNCHANGED <<png, lastOp>>
    /\ pc' = NextStatement(pc)
    /\ UNCHANGED <<file, out, objVars, stdout, called, argv, args, idx>>

\* if args.output: rr_map.to_file(f_out)
main_output ==
    /\ pc = "output"
    /\ IF args.output
       THEN /\ \E r \in {to_file(header, _map, checksum)} :
                   /\ checksum' = r.checksum
                   /\ out' = r.written
            /\ lastOp' = Op("to_file", "", <<>>, RR_UNEXPLORED, "ok",
                            RR_UNEXPLORED)
       ELSE UNCHANGED <<out, checksum, lastOp>>
    /\ pc' = NextStatement(pc)
    /\ UNCHANGED <<file, png, loaded, header, _map, width, height, stdout,
                   called, argv, args, idx>>

NextMain ==
    \/ main_load
    \/ main_set_unexplored
    \/ main_set_floor
    \/ main_set_wall
    \/ main_png
    \/ main_output

SpecMain == InitMain /\ [][NextMain]_vars

-----------------------------------------------------------------------------
(* Properties *)

\* The file layout, read off the bytes: offsets 32 and 36 hold width and
\* height, the pixels follow offset 40, the checksum is the last 16 bytes.
FileWidth(f) == f[33] + 256 * f[34]
FileHeight(f) == f[37] + 256 * f[38]
WellFormed(f) ==
    /\ Len(f) >= 40
    /\ Len(f) = 40 + 4 * FileWidth(f) * FileHeight(f) + 16
HeaderBytes(f) == SubSeq(f, 1, 40)
GridBytes(f) == SubSeq(f, 41, Len(f) - 16)
ChecksumBytes(f) == SubSeq(f, Len(f) - 15, Len(f))
FileGrid(f) == frombytes(GridBytes(f))

\* The pixel at (x, y) of a grid m of the loaded width.
Cell(m, x, y) == m[y * width + x + 1]

Xs == 0..(width - 1)
Ys == 0..(height - 1)

\* All four coordinates of rect lie inside the grid.
RectInGrid(rect) ==
    /\ rect[1] \in Xs /\ rect[3] \in Xs
    /\ rect[2] \in Ys /\ rect[4] \in Ys

Ordered(rect) == rect[1] <= rect[3] /\ rect[2] <= rect[4]

InRect(rect, x, y) ==
    /\ rect[1] <= x /\ x <= rect[3]
    /\ rect[2] <= y /\ y <= rect[4]

OnBorder(rect, x, y) ==
    /\ InRect(rect, x, y)
    /\ x \in {rect[1], rect[3]} \/ y \in {rect[2], rect[4]}

\* The grid before and after the step agree outside the cells in S, which
\* all hold value after it.
Painted(before, after, S, value) ==
    /\ Len(after) = Len(before)
    /\ \E T \in {S} :
         \A x \in Xs, y \in Ys :
           Cell(after, x, y) = IF <<x, y>> \in T THEN value ELSE Cell(before, x, y)

\* C1: right after to_file the stored checksum is the digest of the current
\* pixel bytes, whatever checksum was loaded and whatever edit came before,
\* and the bytes written are the header, then the pixels, then that digest.
C1_SaveRecomputesChecksum ==
    lastOp.op = "to_file" =>
        /\ tofile(checksum) = md5(tofile(_map))
        /\ Len(out) = 40 + 4 * width * height + 16
        /\ HeaderBytes(out) = tofile(header)
        /\ GridBytes(out) = tofile(_map)
        /\ ChecksumBytes(out) = md5(tofile(_map))

\* A map loaded with a wrong checksum, edited, then saved.
C1_Witness ==
    /\ lastOp.op = "to_file"
    /\ called
    /\ _map # FileGrid(file)
    /\ ChecksumBytes(file) # md5(GridBytes(file))
    /\ tofile(checksum) # ChecksumBytes(file)

\* C2: get_pixel(x, y) and set_pixel(x, y, V) with x, y >= 0 raise whenever
\* x >= width or y >= height, and a set_pixel that raises changes no cell.
C2_PixelBoundsChecked ==
    ( /\ lastOp.op \in {"get_pixel", "set_pixel"}
      /\ lastOp.rect[1] >= 0 /\ lastOp.rect[2] >= 0
      /\ lastOp.rect[1] >= width \/ lastOp.rect[2] >= height )
    => /\ lastOp.result = "IndexError"
       /\ _map = FileGrid(file)

RectOps == {"set_rect", "set_rect_border"}

\* The cells of a rectangle and of its perimeter.
RectCells(rect) == { <<x, y>> \in Xs \X Ys : InRect(rect, x, y) }
BorderCells(rect) == { <<x, y>> \in Xs \X Ys : OnBorder(rect, x, y) }

\* The step leaves the object's header, size and checksum and every file alone.
EditFrame ==
    UNCHANGED <<header, width, height, checksum, loaded, file, out, png, stdout>>

\* C4: set_rect with x1 <= x2, y1 <= y2 and all coordinates inside the grid
\* returns normally, sets exactly the cells with x1 <= x <= x2, y1 <= y <= y2
\* to the value and leaves every other cell, the header, width, height and
\* the stored checksum unchanged.
C4_FillRectExact ==
    [][ ( /\ lastOp'.op = "set_rect"
          /\ RectInGrid(lastOp'.rect)
          /\ Ordered(lastOp'.rect) )
        => /\ lastOp'.result = "ok"
           /\ Painted(_map, _map', RectCells(lastOp'.rect), lastOp'.value)
           /\ EditFrame ]_vars

\* set_rect((1,1,3,3), RR_FLOOR) on the blank 5 x 5 map: 9 cells set, 16 blank.
C4_Witness ==
    /\ width = 5 /\ height = 5
    /\ lastOp.op = "set_rect"
    /\ lastOp.rect = <<1, 1, 3, 3>>
    /\ lastOp.value = RR_FLOOR
    /\ lastOp.result = "ok"
    /\ Cardinality({ k \in 1..25 : _map[k] = RR_FLOOR }) = 9
    /\ Cardinality({ k \in 1..25 : _map[k] = RR_UNEXPLORED }) = 16
    /\ \A x \in 1..3, y \in 1..3 : Cell(_map, x, y) = RR_FLOOR

\* C5: set_rect_border with x1 <= x2, y1 <= y2 and all coordinates inside the
\* grid returns normally, sets exactly the perimeter cells (rows y1 and y2
\* over x1..x2, columns x1 and x2 over y1..y2) to the value and leaves the
\* interior, every cell outside the rectangle, the header and the checksum
\* unchanged; with x1 = x2 or y1 = y2 that is exactly one line.
C5_BorderExact ==
    [][ ( /\ lastOp'.op = "set_rect_border"
          /\ RectInGrid(lastOp'.rect)
          /\ Ordered(lastOp'.rect) )
        => /\ lastOp'.result = "ok"
           /\ Painted(_map, _map', BorderCells(lastOp'.rect), lastOp'.value)
           /\ (lastOp'.rect[1] = lastOp'.rect[3] \/ lastOp'.rect[2] = lastOp'.rect[4])
                => BorderCells(lastOp'.rect) = RectCells(lastOp'.rect)
           /\ EditFrame ]_vars

\* set_rect_border((0,0,4,4), RR_WALL) on the blank 5 x 5 map: the 16 perimeter
\* cells set, the 9 interior cells blank.
C5_Witness ==
    /\ width = 5 /\ height = 5
    /\ lastOp.op = "set_rect_border"
    /\ lastOp.rect = <<0, 0, 4, 4>>
    /\ lastOp.value = RR_WALL
    /\ lastOp.result = "ok"
    /\ Cardinality({ k \in 1..25 : _map[k] = RR_WALL }) = 16
    /\ \A x \in 1..3, y \in 1..3 : Cell(_map, x, y) = RR_UNEXPLORED

\* C6: a rectangle edit (x1 <= x2, y1 <= y2, no negative coordinate) with a
\* coordinate outside the grid raises, and writes no cell outside the
\* rectangle.
C6_RectBoundsChecked ==
    ( /\ pc = "api"
      /\ lastOp.op \in RectOps
      /\ Ordered(lastOp.rect)
      /\ lastOp.rect[1] >= 0 /\ lastOp.rect[2] >= 0
      /\ ~RectInGrid(lastOp.rect) )
    => /\ lastOp.result = "IndexError"
       /\ \A x \in Xs, y \in Ys :
            ~InRect(lastOp.rect, x, y)
                => Cell(_map, x, y) = Cell(FileGrid(file), x, y)

\* C10 as stated: with reversed bounds inside the grid both rectangle edits
\* return normally and leave every cell unchanged.
C10_ReversedNoOp ==
    ( /\ pc = "api"
      /\ lastOp.op \in RectOps
      /\ RectInGrid(lastOp.rect)
      /\ ~Ordered(lastOp.rect) )
    => /\ lastOp.result = "ok"
       /\ _map = FileGrid(file)

\* The cells set_rect_border writes when a bound is reversed: none when both
\* are, else the two lines of the axis that is not.
ReversedBorderCells(rect) ==
    IF rect[1] > rect[3] /\ rect[2] > rect[4] THEN {}
    ELSE IF rect[1] > rect[3]
    THEN { <<x, y>> \in Xs \X Ys :
             x \in {rect[1], rect[3]} /\ rect[2] <= y /\ y <= rect[4] }
    ELSE { <<x, y>> \in Xs \X Ys :
             y \in {rect[2], rect[4]} /\ rect[1] <= x /\ x <= rect[3] }

\* C10 amended: with reversed bounds inside the grid (x1 > x2 or y1 > y2)
\* both edits return normally and nothing is swapped; set_rect changes no
\* cell; set_rect_border changes no cell only when both x1 > x2 and y1 > y2,
\* and otherwise writes the columns x1 and x2 over rows y1..y2 (x1 > x2) or
\* the rows y1 and y2 over columns x1..x2 (y1 > y2).
C10_ReversedBounds ==
    [][ ( /\ lastOp'.op \in RectOps
          /\ RectInGrid(lastOp'.rect)
          /\ ~Ordered(lastOp'.rect) )
        => /\ lastOp'.result = "ok"
           /\ Painted(_map, _map',
                      IF lastOp'.op = "set_rect" THEN {}
                      ELSE ReversedBorderCells(lastOp'.rect),
                      lastOp'.value)
           /\ EditFrame ]_vars

\* set_rect_border with x1 > x2 and y1 < y2 that changed the grid.
C10_Witness ==
    /\ pc = "api"
    /\ lastOp.op = "set_rect_border"
    /\ RectInGrid(lastOp.rect)
    /\ lastOp.rect[1] > lastOp.rect[3]
    /\ lastOp.rect[2] < lastOp.rect[4]
    /\ lastOp.result = "ok"
    /\ _map # FileGrid(file)
    /\ \A y \in lastOp.rect[2]..lastOp.rect[4] :
         /\ Cell(_map, lastOp.rect[1], y) = lastOp.value
         /\ Cell(_map, lastOp.rect[3], y) = lastOp.value

\* The stored checksum of a file is the digest of its pixel bytes.
ChecksumCorrect(f) == ChecksumBytes(f) = md5(GridBytes(f))

\* C3: a map that is loaded and saved with no edit, then loaded from the
\* saved file, has the same grid, width, height and header words as after
\* the first load; and when the input's checksum was correct the saved file
\* equals the input byte for byte.
C3_RoundTrip ==
    [][ /\ ( /\ lastOp'.op = "__init__"
             /\ lastOp'.path = "output"
             /\ ~called )
           => /\ lastOp'.result = "ok"
              /\ _map' = _map
              /\ width' = width
              /\ height' = height
              /\ header' = header
        /\ ( /\ lastOp'.op = "to_file"
             /\ ~called
             /\ ChecksumCorrect(file) )
           => out' = file ]_vars

\* A saved, unedited 2 x 3 map loaded again.
C3_Witness ==
    /\ lastOp.op = "__init__"
    /\ lastOp.path = "output"
    /\ lastOp.result = "ok"
    /\ ~called
    /\ width = 2 /\ height = 3
    /\ _map = FileGrid(file)
    /\ tofile(header) = HeaderBytes(file)
    /\ out = file

\* C7: loading a well-formed file whose stored checksum is not the digest of
\* its pixels succeeds and prints only the warning; the object holds the
\* pixels and the checksum exactly as stored; no step rewrites the input
\* file, and only to_file (or loading another file) changes the checksum.
C7_MismatchLoads ==
    [][ /\ file' = file
        /\ lastOp'.op \notin {"to_file", "__init__"} => checksum' = checksum
        /\ ( /\ lastOp'.op = "__init__"
             /\ lastOp'.path = "map"
             /\ WellFormed(file) )
           => /\ lastOp'.result = "ok"
              /\ loaded'
              /\ tofile(_map') = GridBytes(file)
              /\ tofile(checksum') = ChecksumBytes(file)
              /\ stdout' = IF ChecksumCorrect(file) THEN <<>> ELSE <<Warning>> ]_vars

\* A map with a wrong checksum, loaded and exported, still holding the
\* stored pixels and the stored checksum.
C7_Witness ==
    /\ loaded
    /\ ~ChecksumCorrect(file)
    /\ lastOp.op = "to_png"
    /\ stdout = <<Warning>>
    /\ Len(_map) > 1
    /\ _map = FileGrid(file)
    /\ tofile(checksum) = ChecksumBytes(file)
    /\ tofile(checksum) # md5(tofile(_map))

\* The three classes of the specification: 0 unexplored, 1 floor, 2 wall.
Bit31(value) == (value.hi \div 32768) % 2 = 1
Class(value) ==
    IF value = Word(0, 0) THEN 0
    ELSE IF Bit31(value) THEN 1
    ELSE 2

\* C8: classify_pixel is 0 for the value 0, 1 for every value with bit 31
\* set and 2 for every other value; to_png writes a width x height image
\* whose index at y * width + x is the class of the pixel at (x, y), and
\* leaves the grid, the header and the checksum unchanged.
C8_ClassifyAndExport ==
    [][ lastOp'.op = "to_png"
        => /\ png'.written
           /\ png'.width = width
           /\ png'.height = height
           /\ Len(png'.pixels) = width * height
           /\ \A x \in Xs, y \in Ys :
                /\ png'.pixels[y * width + x + 1] = Class(Cell(_map, x, y))
                /\ classify_pixel(Cell(_map, x, y)) = Class(Cell(_map, x, y))
           /\ classify_pixel(Word(0, 0)) = 0
           /\ classify_pixel(Word(32768, 0)) = 1
           /\ classify_pixel(Word(0, 1)) = 2
           /\ UNCHANGED <<_map, header, width, height, checksum>> ]_vars

\* An exported image holding all three classes, 0x80000000 among the floors.
C8_Witness ==
    /\ png.written
    /\ lastOp.op = "to_png"
    /\ {png.pixels[k] : k \in 1..Len(png.pixels)} = {0, 1, 2}
    /\ \E k \in 1..Len(_map) : _map[k] = Word(32768, 0) /\ png.pixels[k] = 1
    /\ \E k \in 1..Len(_map) : _map[k] = Word(0, 1) /\ png.pixels[k] = 2

\* The options of one kind, in command-line order.
OfKind(kind) ==
    LET IsKind(o) == o.kind = kind
    IN  SelectSeq(argv.opts, IsKind)

\* The edits in the order the specification fixes: every unexplored
\* rectangle, then every floor rectangle, then every wall border.
EditList == OfKind("-u") \o OfKind("-f") \o OfKind("-w")

ValueOf(kind) ==
    CASE kind = "-u" -> RR_UNEXPLORED
      [] kind = "-f" -> RR_FLOOR
      [] OTHER -> RR_WALL

Covers(o, x, y) ==
    IF o.kind = "-w" THEN OnBorder(o.rect, x, y) ELSE InRect(o.rect, x, y)

Last(S) == CHOOSE j \in S : \A k \in S : k <= j

\* The grid once every edit of the list is applied to the loaded grid: a cell
\* holds the value of the last edit of the list that covers it.
FinalGrid(edits, loadedGrid) ==
    [k \in 1..(width * height) |->
        LET hits == { j \in 1..Len(edits) :
                        Covers(edits[j], (k - 1) % width, (k - 1) \div width) }
        IN  IF hits = {} THEN loadedGrid[k] ELSE ValueOf(edits[Last(hits)].kind)]

AfterEdits == {"png", "output", "done"}

\* C9: main() applies every unexplored rectangle, then every floor rectangle,
\* then every wall border, each list in command-line order, however the
\* options are interleaved; nothing is exported or saved before the last
\* edit, and the image and the saved file hold the final grid.
C9_EditOrder ==
    /\ pc \notin AfterEdits => ~png.written /\ out = <<>>
    /\ pc \in AfterEdits =>
         \E G \in {FinalGrid(EditList, FileGrid(file))} :
           /\ _map = G
           /\ png.written =>
                /\ png.width = width /\ png.height = height
                /\ png.pixels = [k \in 1..Len(G) |-> Class(G[k])]
           /\ out # <<>> =>
                out = tofile(header) \o tofile(G) \o md5(tofile(G))
           /\ pc \in {"output", "done"} => (png.written <=> argv.png)
           /\ pc = "done" => (out # <<>> <=> argv.output)

\* -w 1,1,2,2 -f 0,0,1,1 -u 1,1,2,2 with --png and --output: the cell (1,1),
\* covered by all three, ends as wall, (0,0) as floor.
C9_Witness ==
    /\ pc = "done"
    /\ argv.opts = << [kind |-> "-w", rect |-> <<1, 1, 2, 2>>],
                      [kind |-> "-f", rect |-> <<0, 0, 1, 1>>],
                      [kind |-> "-u", rect |-> <<1, 1, 2, 2>>] >>
    /\ png.written
    /\ out # <<>>
    /\ Cell(_map, 1, 1) = RR_WALL
    /\ Cell(_map, 0, 0) = RR_FLOOR
    /\ Cell(FileGrid(out), 1, 1) = RR_WALL
    /\ png.pixels[1 * width + 1 + 1] = 2

====
